---- MODULE Spec2Model ----
(***************************************************************************)
(* Model of jirgram's message mirror (src/main.py): the sqlite table       *)
(* `messages` written by MessageDatabase, and the three update handlers of *)
(* jirgramClient that write to it.  handle_new_message and                 *)
(* handle_delete_message contain no await and run as one step;             *)
(* handle_edit_message suspends once, on the awaited getMessage call, and  *)
(* is two steps with other handlers free to run in between.                *)
(***************************************************************************)
EXTENDS Integers, Sequences, FiniteSets, TLC

\* ------------------------------------------------------------------ bounds
MaxEvents == 3      \* updates the event source delivers in one behaviour

\* ------------------------------------------------------------ input domains
Chats == {1, 2}
MsgIds == {1, 2}
Senders == {11, 12}
Dates == {1, 2}
Keys == Chats \X MsgIds

\* TDLib message content: '@type' and, for messageText, the inner text.
Contents ==
    { [type |-> "messageText", text |-> "a"],
      [type |-> "messageText", text |-> "b"],
      [type |-> "messagePhoto", text |-> ""] }

\* Who sent a message, and when, are fixed properties of the message on the
\* server: every update about one message carries the same sender and date.
\* In chat 1 the dates run against the ids; in chat 2 they tie.
SenderOf(chat_id, id) == IF (chat_id + id) % 2 = 0 THEN 11 ELSE 12
DateOf(chat_id, id) == IF chat_id = 1 /\ id = 1 THEN 2 ELSE 1

\* The message object of an updateNewMessage.
Messages ==
    { m \in [id : MsgIds, chat_id : Chats, sender_id : Senders,
             content : Contents, date : Dates] :
        /\ m.sender_id = SenderOf(m.chat_id, m.id)
        /\ m.date = DateOf(m.chat_id, m.id) }

\* What getMessage answers: of the message object only the content is read.
Replies == [content : Contents]

\* message_ids of an updateDeleteMessages: a list of distinct ids, possibly empty.
IdLists ==
    { ids \in UNION { [1..n -> MsgIds] : n \in 0..Cardinality(MsgIds) } :
        \A i, j \in 1..Len(ids) : i # j => ids[i] # ids[j] }

None == [type |-> "None"]

\* ------------------------------------------------------- MessageDatabase
\* The table `messages` is a set of rows; the columns are those of init_db.

\* The INSERT without its sixth value: original_text is left empty.
save_message_without_original(tbl, message_data) ==
    { r \in tbl : ~(r.message_id = message_data.id
                    /\ r.chat_id = message_data.chat_id) }
    \cup
    { [message_id    |-> message_data.id,
       chat_id       |-> message_data.chat_id,
       sender_id     |-> message_data.sender_id,
       text          |-> message_data.text,
       date          |-> message_data.date,
       is_deleted    |-> 0,
       is_edited     |-> 0,
       original_text |-> ""] }

save_message(tbl, message_data) ==
    { r \in tbl : ~(r.message_id = message_data.id
                    /\ r.chat_id = message_data.chat_id) }
    \cup
    { [message_id    |-> message_data.id,
       chat_id       |-> message_data.chat_id,
       sender_id     |-> message_data.sender_id,
       text          |-> message_data.text,
       date          |-> message_data.date,
       is_deleted    |-> 0,
       is_edited     |-> 0,
       original_text |-> message_data.text] }

\* DELETE FROM messages instead of the UPDATE.
mark_deleted_removing(tbl, chat_id, message_id) ==
    { r \in tbl : ~(r.chat_id = chat_id /\ r.message_id = message_id) }

\* The UPDATE with message_id missing from its WHERE.
mark_deleted_whole_chat(tbl, chat_id, message_id) ==
    { IF r.chat_id = chat_id
        THEN [r EXCEPT !.is_deleted = 1]
        ELSE r : r \in tbl }

mark_deleted(tbl, chat_id, message_id) ==
    { IF r.chat_id = chat_id /\ r.message_id = message_id
        THEN [r EXCEPT !.is_deleted = 1]
        ELSE r : r \in tbl }

\* The UPDATE also resetting is_deleted.
mark_edited_clearing_deleted(tbl, chat_id, message_id, new_text) ==
    { IF r.chat_id = chat_id /\ r.message_id = message_id
        THEN [r EXCEPT !.is_edited = 1, !.text = new_text, !.is_deleted = 0]
        ELSE r : r \in tbl }

\* INSERT OR REPLACE of the edited text when the UPDATE would match no row.
mark_edited_upserting(tbl, chat_id, message_id, new_text) ==
    IF \E r \in tbl : r.chat_id = chat_id /\ r.message_id = message_id
      THEN { IF r.chat_id = chat_id /\ r.message_id = message_id
               THEN [r EXCEPT !.is_edited = 1, !.text = new_text]
               ELSE r : r \in tbl }
      ELSE tbl \cup { [message_id |-> message_id, chat_id |-> chat_id, sender_id |-> 0,
                       text |-> new_text, date |-> 0, is_deleted |-> 0, is_edited |-> 1,
                       original_text |-> new_text] }

\* The UPDATE also moving the previous text into original_text.
mark_edited_shifting_original(tbl, chat_id, message_id, new_text) ==
    { IF r.chat_id = chat_id /\ r.message_id = message_id
        THEN [r EXCEPT !.is_edited = 1, !.original_text = r.text, !.text = new_text]
        ELSE r : r \in tbl }

\* The UPDATE setting the flag only.
mark_edited_flag_only(tbl, chat_id, message_id, new_text) ==
    { IF r.chat_id = chat_id /\ r.message_id = message_id
        THEN [r EXCEPT !.is_edited = 1]
        ELSE r : r \in tbl }

mark_edited(tbl, chat_id, message_id, new_text) ==
    { IF r.chat_id = chat_id /\ r.message_id = message_id
        THEN [r EXCEPT !.is_edited = 1, !.text = new_text]
        ELSE r : r \in tbl }

\* The dict built with the two flag columns taken from each other's index.
get_message_swapped_flags(tbl, chat_id, message_id) ==
    LET result == { r \in tbl : r.chat_id = chat_id /\ r.message_id = message_id }
    IN  IF result # {}
          THEN LET r == CHOOSE q \in result : TRUE
               IN  [r EXCEPT !.is_deleted = r.is_edited, !.is_edited = r.is_deleted]
          ELSE None

get_message(tbl, chat_id, message_id) ==
    LET result == { r \in tbl : r.chat_id = chat_id /\ r.message_id = message_id }
    IN  IF result # {} THEN CHOOSE r \in result : TRUE ELSE None

\* ---------------------------------------------------------- jirgramClient

extract_text(content) ==
    IF content.type = "messageText"
      THEN content.text
      ELSE "[" \o content.type \o "]"

handle_new_message(tbl, cfg, update) ==
    IF update.type = "updateNewMessage" /\ cfg.anti_delete
      THEN save_message(tbl,
             [id        |-> update.message.id,
              chat_id   |-> update.message.chat_id,
              sender_id |-> update.message.sender_id,
              text      |-> extract_text(update.message.content),
              date      |-> update.message.date])
      ELSE tbl

RECURSIVE delete_loop(_, _, _)
delete_loop(tbl, chat_id, message_ids) ==
    IF message_ids = << >>
      THEN tbl
      ELSE delete_loop(mark_deleted(tbl, chat_id, Head(message_ids)),
                       chat_id, Tail(message_ids))

\* The handler without its `if self.config['anti_delete']`.
handle_delete_message_ungated(tbl, cfg, update) ==
    delete_loop(tbl, update.chat_id, update.message_ids)

handle_delete_message(tbl, cfg, update) ==
    IF cfg.anti_delete
      THEN delete_loop(tbl, update.chat_id, update.message_ids)
      ELSE tbl

\* The part of handle_edit_message after the await: `message` is what
\* getMessage returned.
edit_resume(tbl, chat_id, message_id, message) ==
    mark_edited(tbl, chat_id, message_id, extract_text(message.content))

\* Both halves run back to back (no other handler in between).
handle_edit_message(tbl, cfg, update, message) ==
    IF cfg.save_edited
      THEN edit_resume(tbl, update.chat_id, update.message_id, message)
      ELSE tbl

\* The SELECT without `AND is_deleted = 1`.
deleted_rows_any_flag(tbl, chat_id) ==
    { r \in tbl : r.chat_id = chat_id }

\* Rows of get_deleted_messages, as a set (the ORDER BY is order_by_date_desc).
deleted_rows(tbl, chat_id) ==
    { r \in tbl : r.chat_id = chat_id /\ r.is_deleted = 1 }

\* ORDER BY date (ascending) instead of ORDER BY date DESC.
RECURSIVE order_by_date_asc(_)
order_by_date_asc(rows) ==
    IF rows = {}
      THEN << >>
      ELSE LET first == CHOOSE r \in rows : \A q \in rows : r.date <= q.date
           IN  << first >> \o order_by_date_asc(rows \ {first})

RECURSIVE order_by_date_desc(_)
order_by_date_desc(rows) ==
    IF rows = {}
      THEN << >>
      ELSE LET first == CHOOSE r \in rows : \A q \in rows : q.date <= r.date
           IN  << first >> \o order_by_date_desc(rows \ {first})

get_deleted_messages(tbl, chat_id) ==
    order_by_date_desc(deleted_rows(tbl, chat_id))

\* ------------------------------------------------------------------ state
VARIABLES
    messages,   \* the sqlite table `messages`
    config,     \* jirgramClient.config (the two flags the handlers read)
    tasks,      \* handle_edit_message coroutines suspended at the await
    delivered,  \* number of updates delivered so far
    hist,       \* per key: the events processed for it, in processing order
    ref,        \* the table had every update been applied whole at delivery
    raced,      \* keys that got an update while an edit of theirs was suspended
    crossed,    \* an update was processed while an edit of another key was suspended
    last_edit,  \* per key: the text of the most recently delivered edit, if any
    last_step   \* the call the latest step made or resumed, and how it ended

vars == << messages, config, tasks, delivered, hist, ref, raced, crossed, last_edit,
           last_step >>
order_vars == << ref, raced, crossed, last_edit >>

Ev(kind, text) == [kind |-> kind, text |-> text]

PendingKeys == { << tasks[i].chat_id, tasks[i].message_id >> : i \in 1..Len(tasks) }

Init ==
    /\ messages = {}
    /\ config = [anti_delete |-> TRUE, save_edited |-> TRUE]
    /\ tasks = << >>
    /\ delivered = 0
    /\ hist = [k \in Keys |-> << >>]
    /\ ref = {}
    /\ raced = {}
    /\ crossed = FALSE
    /\ last_edit = [k \in Keys |-> << >>]
    /\ last_step = [op |-> "__init__"]

\* updateNewMessage is delivered; handle_new_message runs to its end.
DeliverNew(message) ==
    LET update == [type |-> "updateNewMessage", message |-> message]
        k == << message.chat_id, message.id >>
    IN  /\ delivered < MaxEvents
        /\ delivered' = delivered + 1
        /\ messages' = handle_new_message(messages, config, update)
        /\ hist' = [hist EXCEPT ![k] = Append(@, Ev("new", extract_text(message.content)))]
        /\ UNCHANGED << config, tasks, last_step >>

RECURSIVE AppendDeletes(_, _, _)
AppendDeletes(h, chat_id, message_ids) ==
    IF message_ids = << >>
      THEN h
      ELSE AppendDeletes(
             [h EXCEPT ![<< chat_id, Head(message_ids) >>] = Append(@, Ev("delete", ""))],
             chat_id, Tail(message_ids))

\* updateDeleteMessages is delivered; handle_delete_message runs to its end.
DeliverDelete(chat_id, message_ids) ==
    LET update == [chat_id |-> chat_id, message_ids |-> message_ids]
    IN  /\ delivered < MaxEvents
        /\ delivered' = delivered + 1
        /\ messages' = handle_delete_message(messages, config, update)
        /\ hist' = AppendDeletes(hist, chat_id, message_ids)
        /\ UNCHANGED << config, tasks, last_step >>

\* updateMessageEdited is delivered; handle_edit_message runs up to the
\* await of getMessage.  `message` is the answer getMessage will give.
DeliverEdit(chat_id, message_id, message) ==
    /\ delivered < MaxEvents
    /\ config.save_edited
    /\ delivered' = delivered + 1
    /\ tasks' = Append(tasks, [chat_id |-> chat_id, message_id |-> message_id,
                               message |-> message])
    /\ UNCHANGED << messages, config, hist, last_step >>

\* getMessage returns to the i-th suspended coroutine, which writes and ends.
ResumeEdit(i) ==
    LET t == tasks[i]
        k == << t.chat_id, t.message_id >>
    IN  /\ i \in 1..Len(tasks)
        /\ messages' = edit_resume(messages, t.chat_id, t.message_id, t.message)
        /\ tasks' = [j \in 1..(Len(tasks) - 1) |-> IF j < i THEN tasks[j] ELSE tasks[j + 1]]
        /\ hist' = [hist EXCEPT ![k] = Append(@, Ev("edit", extract_text(t.message.content)))]
        /\ UNCHANGED << config, delivered, last_step >>

\* The handlers as the client runs them.
NewMessage(message) ==
    DeliverNew(message) /\ UNCHANGED order_vars

DeleteMessages(chat_id, message_ids) ==
    DeliverDelete(chat_id, message_ids) /\ UNCHANGED order_vars

EditDelivered(chat_id, message_id, message) ==
    DeliverEdit(chat_id, message_id, message) /\ UNCHANGED order_vars

EditResumed(i) ==
    ResumeEdit(i) /\ UNCHANGED order_vars

Next ==
    \/ \E message \in Messages : NewMessage(message)
    \/ \E chat_id \in Chats, message_ids \in IdLists : DeleteMessages(chat_id, message_ids)
    \/ \E chat_id \in Chats, message_id \in MsgIds, message \in Replies :
          EditDelivered(chat_id, message_id, message)
    \/ \E i \in 1..MaxEvents : EditResumed(i)

Spec == Init /\ [][Next]_vars

\* The same handlers, with the delivery order written down next to them: `ref`
\* applies each update whole at the moment it is delivered.
OrderedNew(message) ==
    LET update == [type |-> "updateNewMessage", message |-> message]
        k == << message.chat_id, message.id >>
    IN  /\ DeliverNew(message)
        /\ ref' = handle_new_message(ref, config, update)
        /\ raced' = raced \cup ({k} \cap PendingKeys)
        /\ crossed' = (crossed \/ PendingKeys \ {k} # {})
        /\ UNCHANGED last_edit

OrderedDelete(chat_id, message_ids) ==
    LET update == [chat_id |-> chat_id, message_ids |-> message_ids]
        named == { << chat_id, message_ids[i] >> : i \in 1..Len(message_ids) }
    IN  /\ DeliverDelete(chat_id, message_ids)
        /\ ref' = handle_delete_message(ref, config, update)
        /\ raced' = raced \cup (named \cap PendingKeys)
        /\ crossed' = (crossed \/ (named # {} /\ PendingKeys \ named # {}))
        /\ UNCHANGED last_edit

OrderedEditDelivered(chat_id, message_id, message) ==
    LET update == [chat_id |-> chat_id, message_id |-> message_id]
        k == << chat_id, message_id >>
    IN  /\ DeliverEdit(chat_id, message_id, message)
        /\ ref' = handle_edit_message(ref, config, update, message)
        /\ raced' = raced \cup ({k} \cap PendingKeys)
        /\ last_edit' = [last_edit EXCEPT ![k] = << extract_text(message.content) >>]
        /\ UNCHANGED crossed

OrderedEditResumed(i) ==
    /\ ResumeEdit(i)
    /\ crossed' = (crossed \/ PendingKeys \ {<< tasks[i].chat_id, tasks[i].message_id >>} # {})
    /\ UNCHANGED << ref, raced, last_edit >>

NextOrdered ==
    \/ \E message \in Messages : OrderedNew(message)
    \/ \E chat_id \in Chats, message_ids \in IdLists : OrderedDelete(chat_id, message_ids)
    \/ \E chat_id \in Chats, message_id \in MsgIds, message \in Replies :
          OrderedEditDelivered(chat_id, message_id, message)
    \/ \E i \in 1..MaxEvents : OrderedEditResumed(i)

SpecOrdered == Init /\ [][NextOrdered]_vars

\* ------------------------------------------------ calls and their outcome
\* The handlers and the two queries as calls that return or raise.  A write
\* that fails (sqlite3 raises in execute or commit) leaves the table as it was
\* and the exception leaves the handler, which has no try/except.

Returned(tbl) == [tbl |-> tbl, raised |-> FALSE]
Raised(tbl) == [tbl |-> tbl, raised |-> TRUE]

\* handle_new_message; write_ok: save_message succeeds.
new_message_call(tbl, cfg, update, write_ok) ==
    IF update.type = "updateNewMessage" /\ cfg.anti_delete /\ ~write_ok
      THEN Raised(tbl)
      ELSE Returned(handle_new_message(tbl, cfg, update))

\* The handler with the loop body in try/except: pass.
delete_message_call_swallowing(tbl, cfg, update, fail_at) ==
    IF cfg.anti_delete /\ fail_at \in 1..Len(update.message_ids)
      THEN Returned(delete_loop(tbl, update.chat_id,
                                SubSeq(update.message_ids, 1, fail_at - 1)))
      ELSE Returned(handle_delete_message(tbl, cfg, update))

\* handle_delete_message; fail_at: the position in message_ids whose
\* mark_deleted fails (0: none does).  The ids before it are already committed.
delete_message_call(tbl, cfg, update, fail_at) ==
    IF cfg.anti_delete /\ fail_at \in 1..Len(update.message_ids)
      THEN Raised(delete_loop(tbl, update.chat_id,
                              SubSeq(update.message_ids, 1, fail_at - 1)))
      ELSE Returned(handle_delete_message(tbl, cfg, update))

\* handle_edit_message after the await; write_ok: mark_edited succeeds.
edit_resume_call(tbl, chat_id, message_id, message, write_ok) ==
    IF ~write_ok
      THEN Raised(tbl)
      ELSE Returned(edit_resume(tbl, chat_id, message_id, message))

CallNew(message, write_ok) ==
    LET update == [type |-> "updateNewMessage", message |-> message]
        out == new_message_call(messages, config, update, write_ok)
    IN  /\ delivered < MaxEvents
        /\ delivered' = delivered + 1
        /\ messages' = out.tbl
        /\ last_step' = [op |-> "handle_new_message", update |-> update,
                         write_failed |-> (config.anti_delete /\ ~write_ok),
                         raised |-> out.raised]
        /\ UNCHANGED << config, tasks, hist, order_vars >>

CallDelete(chat_id, message_ids, fail_at) ==
    LET update == [chat_id |-> chat_id, message_ids |-> message_ids]
        out == delete_message_call(messages, config, update, fail_at)
    IN  /\ delivered < MaxEvents
        /\ fail_at \in 0..Len(message_ids)
        /\ delivered' = delivered + 1
        /\ messages' = out.tbl
        /\ last_step' = [op |-> "handle_delete_message", update |-> update,
                         fail_at |-> fail_at,
                         write_failed |-> (config.anti_delete /\ fail_at > 0),
                         raised |-> out.raised]
        /\ UNCHANGED << config, tasks, hist, order_vars >>

\* handle_edit_message up to the await, or to its end when save_edited is off.
CallEditStart(chat_id, message_id, message) ==
    LET update == [chat_id |-> chat_id, message_id |-> message_id]
    IN  /\ delivered < MaxEvents
        /\ delivered' = delivered + 1
        /\ tasks' = IF config.save_edited
                      THEN Append(tasks, [chat_id |-> chat_id, message_id |-> message_id,
                                          message |-> message])
                      ELSE tasks
        /\ last_step' = [op |-> "handle_edit_message:start", update |-> update,
                         awaits |-> config.save_edited]
        /\ UNCHANGED << messages, config, hist, order_vars >>

CallEditFinish(i, write_ok) ==
    LET t == tasks[i]
        out == edit_resume_call(messages, t.chat_id, t.message_id, t.message, write_ok)
    IN  /\ i \in 1..Len(tasks)
        /\ messages' = out.tbl
        /\ tasks' = [j \in 1..(Len(tasks) - 1) |-> IF j < i THEN tasks[j] ELSE tasks[j + 1]]
        /\ last_step' = [op |-> "handle_edit_message:finish",
                         update |-> [chat_id |-> t.chat_id, message_id |-> t.message_id],
                         message |-> t.message,
                         write_failed |-> ~write_ok,
                         raised |-> out.raised]
        /\ UNCHANGED << config, delivered, hist, order_vars >>

\* MessageDatabase.get_message is called.  It may run between the two halves
\* of an edit handler; it contains no await itself.
CallGetMessage(chat_id, message_id) ==
    /\ last_step' = [op |-> "get_message", chat_id |-> chat_id,
                     message_id |-> message_id,
                     value |-> get_message(messages, chat_id, message_id)]
    /\ UNCHANGED << messages, config, tasks, delivered, hist, order_vars >>

\* jirgramClient.get_deleted_messages is called.
CallGetDeleted(chat_id) ==
    /\ last_step' = [op |-> "get_deleted_messages", chat_id |-> chat_id,
                     value |-> get_deleted_messages(messages, chat_id)]
    /\ UNCHANGED << messages, config, tasks, delivered, hist, order_vars >>

\* The owner of the client assigns a feature flag in client.config.
Configs == [anti_delete : BOOLEAN, save_edited : BOOLEAN]
SetConfig(cfg) ==
    /\ cfg # config
    /\ config' = cfg
    /\ last_step' = [op |-> "config"]
    /\ UNCHANGED << messages, tasks, delivered, hist, order_vars >>

NextCalls ==
    \/ \E message \in Messages, write_ok \in BOOLEAN : CallNew(message, write_ok)
    \/ \E chat_id \in Chats, message_ids \in IdLists, fail_at \in 0..Cardinality(MsgIds) :
          CallDelete(chat_id, message_ids, fail_at)
    \/ \E chat_id \in Chats, message_id \in MsgIds, message \in Replies :
          CallEditStart(chat_id, message_id, message)
    \/ \E i \in 1..MaxEvents, write_ok \in BOOLEAN : CallEditFinish(i, write_ok)
    \/ \E chat_id \in Chats, message_id \in MsgIds : CallGetMessage(chat_id, message_id)
    \/ \E chat_id \in Chats : CallGetDeleted(chat_id)

SpecCalls == Init /\ [][NextCalls]_vars

\* The handlers, their writes succeeding, with the flags changing under them.
NextFlags ==
    \/ \E message \in Messages : CallNew(message, TRUE)
    \/ \E chat_id \in Chats, message_ids \in IdLists : CallDelete(chat_id, message_ids, 0)
    \/ \E chat_id \in Chats, message_id \in MsgIds, message \in Replies :
          CallEditStart(chat_id, message_id, message)
    \/ \E i \in 1..MaxEvents : CallEditFinish(i, TRUE)
    \/ \E cfg \in Configs : SetConfig(cfg)

SpecFlags == Init /\ [][NextFlags]_vars

TypeOK ==
    /\ delivered \in 0..MaxEvents
    /\ Len(tasks) <= delivered
    /\ \A r \in messages : << r.chat_id, r.message_id >> \in Keys

\* ------------------------------------------------------------ vocabulary
Row(tbl, k) == get_message(tbl, k[1], k[2])
KeyOf(r) == << r.chat_id, r.message_id >>
Last(s) == s[Len(s)]
Kinds(k, kind) == { i \in 1..Len(hist[k]) : hist[k][i].kind = kind }
\* Index in hist[k] of the latest NewMessage processed for k (0 if none).
LastNew(k) == IF Kinds(k, "new") = {} THEN 0
              ELSE CHOOSE i \in Kinds(k, "new") : \A j \in Kinds(k, "new") : j <= i
FirstNew(k) == CHOOSE i \in Kinds(k, "new") : \A j \in Kinds(k, "new") : i <= j

NewUpdates == { [type |-> "updateNewMessage", message |-> m] : m \in Messages }
DeleteUpdates == [chat_id : Chats, message_ids : IdLists]
EditUpdates == [chat_id : Chats, message_id : MsgIds]

\* ------------------------------------------------------------------ claims

\* C1: once a record for k exists, its original_text is the text of the first
\* NewMessage processed for k, whatever events follow.
C1_OriginalTextIsFirstNew ==
    \A k \in Keys :
      (Row(messages, k) # None /\ Kinds(k, "new") # {})
        => Row(messages, k).original_text = hist[k][FirstNew(k)].text

\* C2: is_deleted is monotonic: a record that has is_deleted = 1 still has it
\* after every later step.
C2_DeletedStaysDeleted ==
    [][ \A k \in Keys :
          (Row(messages, k) # None /\ Row(messages, k).is_deleted = 1)
            => (Row(messages', k) # None /\ Row(messages', k).is_deleted = 1) ]_vars

\* C3: a MessagesDeleted naming a key that has no record leaves a tombstone:
\* afterwards get_message returns a record with is_deleted true, not None.
C3_DeleteOfUnknownLeavesTombstone ==
    [][ \A k \in Keys :
          (Row(messages, k) = None /\ Len(hist'[k]) > Len(hist[k])
             /\ Last(hist'[k]).kind = "delete")
            => (Row(messages', k) # None /\ Row(messages', k).is_deleted = 1) ]_vars

\* C4: idempotence: whenever an update has just been processed, processing the
\* same update (same payload, same getMessage answer) once more leaves every
\* record as it is.
C4_TwiceIsOnce ==
    [][ /\ \A u \in NewUpdates :
             LET k == << u.message.chat_id, u.message.id >>
             IN  (Len(hist'[k]) > Len(hist[k])
                    /\ Last(hist'[k]) = Ev("new", extract_text(u.message.content)))
                   => handle_new_message(messages', config', u) = messages'
        /\ \A u \in DeleteUpdates :
             (u.message_ids # << >>
                /\ hist' = AppendDeletes(hist, u.chat_id, u.message_ids))
               => handle_delete_message(messages', config', u) = messages'
        /\ \A u \in EditUpdates, m \in Replies :
             LET k == << u.chat_id, u.message_id >>
             IN  (Len(hist'[k]) > Len(hist[k])
                    /\ Last(hist'[k]) = Ev("edit", extract_text(m.content)))
                   => handle_edit_message(messages', config', u, m) = messages' ]_vars

\* An edit was processed twice in a row on a stored record whose text it changed.
C4_Witness ==
    \E k \in Keys :
      /\ Len(hist[k]) = 3
      /\ hist[k][1].kind = "new"
      /\ hist[k][2].kind = "edit" /\ hist[k][2].text # hist[k][1].text
      /\ hist[k][3] = hist[k][2]
      /\ Row(messages, k) # None

\* The events processed for k are exactly NewMessage(t0), MessageEdited(t1),
\* MessagesDeleted, in this order.
NewEditDelete(k) ==
    /\ Len(hist[k]) = 3
    /\ hist[k][1].kind = "new"
    /\ hist[k][2].kind = "edit"
    /\ hist[k][3].kind = "delete"

\* C5: after NewMessage(k, t0), MessageEdited(k, t1), MessagesDeleted([k]) and
\* nothing else for k, get_message(k) has original_text = t0, text = t1,
\* is_edited and is_deleted true.
C5_NewEditDelete ==
    \A k \in Keys :
      NewEditDelete(k) =>
        /\ Row(messages, k) # None
        /\ Row(messages, k).original_text = hist[k][1].text
        /\ Row(messages, k).text = hist[k][2].text
        /\ Row(messages, k).is_edited = 1
        /\ Row(messages, k).is_deleted = 1

C5_Witness ==
    \E k \in Keys : NewEditDelete(k) /\ hist[k][1].text # hist[k][2].text

Listed(chat_id) ==
    LET res == get_deleted_messages(messages, chat_id)
    IN  { KeyOf(res[i]) : i \in 1..Len(res) }

\* C6 as stated: get_deleted_messages lists no key whose most recently
\* processed event was not a deletion.
C6_ListedOnlyIfLastEventIsDelete ==
    \A c \in Chats : \A k \in Listed(c) :
      hist[k] # << >> /\ Last(hist[k]).kind = "delete"

\* C6 amended: get_deleted_messages lists no key whose most recently processed
\* event was a NewMessage, and no key without a MessagesDeleted processed after
\* its latest NewMessage; a key whose latest event is an edit may be listed.
C6_ListedOnlyIfDeletedSinceNew ==
    \A c \in Chats : \A k \in Listed(c) :
      /\ k[1] = c
      /\ hist[k] # << >> /\ Last(hist[k]).kind # "new"
      /\ \E i \in Kinds(k, "delete") : i > LastNew(k)

\* A listed key whose latest processed event is an edit.
C6_Witness ==
    \E c \in Chats : \E k \in Listed(c) : Last(hist[k]).kind = "edit"

\* C7: no record is ever removed: a key that has a record has one after
\* every step.
C7_NoRecordRemoved ==
    [][ \A k \in Keys : Row(messages, k) # None => Row(messages', k) # None ]_vars

\* A record that was deleted, then delivered again, then edited is still there.
C7_Witness ==
    \E k \in Keys :
      /\ Row(messages, k) # None
      /\ Kinds(k, "delete") # {} /\ Kinds(k, "edit") # {}
      /\ LastNew(k) > 1

\* C8: the store follows delivery order: once no handler is suspended, the
\* table is the one obtained by applying every update whole at its delivery.
C8_StoreFollowsDeliveryOrder ==
    tasks = << >> => messages = ref

\* C9: handlers of distinct keys do not interfere: a key whose updates never
\* overlapped a suspended edit of its own has, whenever none of its edits is
\* suspended, the record of its updates applied in order; and a step changes
\* only records of the keys its update names.
C9_NoCrossKeyInterference ==
    [][ /\ \A k \in Keys \ (raced' \cup PendingKeys') :
             Row(messages', k) = Row(ref', k)
        /\ \A k \in Keys :
             Row(messages', k) # Row(messages, k) => hist'[k] # hist[k] ]_vars

\* An update of one key was processed while an edit of another key was
\* suspended, no key raced with itself, and both keys have their records.
C9_Witness ==
    /\ crossed /\ raced = {} /\ tasks = << >>
    /\ \E k1, k2 \in Keys :
         /\ k1 # k2
         /\ Row(messages, k1) # None /\ Row(messages, k1).is_edited = 1
         /\ Row(messages, k2) # None /\ hist[k2] # << >>

\* What the store keeps of k's texts, oldest first.
Trail(k) ==
    LET r == Row(messages, k)
    IN  IF r = None THEN << >>
        ELSE IF r.is_edited = 1 THEN << r.original_text, r.text >>
        ELSE << r.original_text >>

\* k was created by a NewMessage and only MessageEdited events followed.
NewThenEdits(k) ==
    /\ LastNew(k) > 0
    /\ \A i \in (LastNew(k) + 1)..Len(hist[k]) : hist[k][i].kind = "edit"
NumEdits(k) == Len(hist[k]) - LastNew(k)

C11_DeletedOfChatByDateDesc ==
    \A c \in Chats :
      LET res == get_deleted_messages(messages, c)
      IN  /\ \A i \in 1..Len(res) :
               res[i] \in messages /\ res[i].chat_id = c /\ res[i].is_deleted = 1
          /\ \A r \in messages :
               (r.chat_id = c /\ r.is_deleted = 1) => \E i \in 1..Len(res) : res[i] = r
          /\ \A i, j \in 1..Len(res) : i # j => res[i] # res[j]
          /\ \A i, j \in 1..Len(res) : i < j => res[i].date >= res[j].date

\* Chat 1 lists two deleted rows; the later-dated one, of the smaller id, is first.
C11_Witness ==
    LET res == get_deleted_messages(messages, 1)
    IN  /\ Len(res) = 2
        /\ res[1].date > res[2].date
        /\ res[1].message_id < res[2].message_id

\* C12: a record with is_edited true has the text of the most recently
\* delivered MessageEdited of its key.  Stated for the keys none of whose edit
\* handlers is suspended, where every delivered edit has made its write: the
\* claim as worded also covers the states in between, and fails there too.
C12_EditedTextIsLastDeliveredEdit ==
    \A k \in Keys \ PendingKeys :
      (Row(messages, k) # None /\ Row(messages, k).is_edited = 1)
        => << Row(messages, k).text >> = last_edit[k]

Handlers == { "handle_new_message", "handle_delete_message",
              "handle_edit_message:finish" }
StepKey(s) == << s.update.chat_id, s.update.message_id >>

\* C13: the two queries write nothing, and what get_message returns, also
\* between the two halves of an edit handler of the same key, is None or one
\* whole stored row of that key, as it is before and after the query.
C13_QueriesReadOnlyAndUntorn ==
    [][ LET s == last_step'
        IN  /\ s.op = "get_message" =>
                 /\ messages' = messages
                 /\ LET rows == { r \in messages :
                                    r.chat_id = s.chat_id /\ r.message_id = s.message_id }
                    IN  \/ rows = {} /\ s.value = None
                        \/ s.value \in rows /\ s.value \in messages'
            /\ s.op = "get_deleted_messages" =>
                 /\ messages' = messages
                 /\ \A i \in 1..Len(s.value) : s.value[i] \in messages ]_vars

\* get_message returned the stored row of a key while an edit of it is suspended.
C13_Witness ==
    /\ last_step.op = "get_message"
    /\ last_step.value # None
    /\ << last_step.chat_id, last_step.message_id >> \in PendingKeys

\* The table after the update of step s, had all its writes succeeded.
PostOf(s) ==
    IF s.op = "handle_new_message" THEN handle_new_message(messages, config, s.update)
    ELSE IF s.op = "handle_delete_message"
      THEN handle_delete_message(messages, config, s.update)
    ELSE edit_resume(messages, s.update.chat_id, s.update.message_id, s.message)

\* C14: when a store write fails in a handler, the handler ends by raising, and
\* every key's record is exactly its record before the event or exactly its
\* record after the event had it succeeded.
C14_FailedWriteRaisesAndIsAtomicPerKey ==
    [][ LET s == last_step'
        IN  (s.op \in Handlers /\ s.write_failed) =>
              /\ s.raised
              /\ \A k \in Keys :
                   \/ Row(messages', k) = Row(messages, k)
                   \/ Row(messages', k) = Row(PostOf(s), k) ]_vars

\* A batch of two ids failed at its second: the first is marked, the second not.
C14_Witness ==
    /\ last_step.op = "handle_delete_message"
    /\ last_step.fail_at = 2 /\ last_step.raised
    /\ LET c == last_step.update.chat_id
           ids == last_step.update.message_ids
       IN  /\ Row(messages, << c, ids[1] >>) # None
           /\ Row(messages, << c, ids[1] >>).is_deleted = 1
           /\ Row(messages, << c, ids[2] >>) # None
           /\ Row(messages, << c, ids[2] >>).is_deleted = 0

\* C15: a NewMessage for a key without a record creates the record with text
\* and original_text the extracted text, both flags 0, sender_id and date of
\* the event.
C15_NewMessageCreatesRecord ==
    [][ LET s == last_step'
        IN  (s.op = "handle_new_message" /\ ~s.raised /\ config.anti_delete
               /\ Row(messages, << s.update.message.chat_id, s.update.message.id >>) = None)
            => LET m == s.update.message
               IN  Row(messages', << m.chat_id, m.id >>) =
                     [message_id    |-> m.id,
                      chat_id       |-> m.chat_id,
                      sender_id     |-> m.sender_id,
                      text          |-> extract_text(m.content),
                      date          |-> m.date,
                      is_deleted    |-> 0,
                      is_edited     |-> 0,
                      original_text |-> extract_text(m.content)] ]_vars

\* The first update is a NewMessage of a photo; its record is the only one.
C15_Witness ==
    /\ last_step.op = "handle_new_message" /\ ~last_step.raised
    /\ delivered = 1
    /\ last_step.update.message.content.type = "messagePhoto"
    /\ Cardinality(messages) = 1

\* C16: an edit changes at most text and is_edited of its key's record; a
\* delete changes at most is_deleted of the records it names; every other
\* column and every other record stays, and no record appears.
C16_FrameOfEditAndDelete ==
    [][ LET s == last_step'
        IN  /\ s.op = "handle_edit_message:finish" =>
                 /\ Cardinality(messages') = Cardinality(messages)
                 /\ \A r \in messages :
                      IF KeyOf(r) = StepKey(s)
                        THEN [r EXCEPT !.text = Row(messages', KeyOf(r)).text,
                                       !.is_edited = Row(messages', KeyOf(r)).is_edited]
                               \in messages'
                        ELSE r \in messages'
            /\ s.op = "handle_delete_message" =>
                 /\ Cardinality(messages') = Cardinality(messages)
                 /\ \A r \in messages :
                      IF /\ r.chat_id = s.update.chat_id
                         /\ \E i \in 1..Len(s.update.message_ids) :
                              s.update.message_ids[i] = r.message_id
                        THEN [r EXCEPT !.is_deleted = Row(messages', KeyOf(r)).is_deleted]
                               \in messages'
                        ELSE r \in messages' ]_vars

\* An edit has just rewritten the text of a record that is deleted.
C16_Witness ==
    /\ last_step.op = "handle_edit_message:finish" /\ ~last_step.raised
    /\ Row(messages, StepKey(last_step)) # None
    /\ Row(messages, StepKey(last_step)).is_deleted = 1
    /\ Row(messages, StepKey(last_step)).is_edited = 1
    /\ Row(messages, StepKey(last_step)).text # Row(messages, StepKey(last_step)).original_text

\* C17: a MessageEdited for a key without a record creates no record and
\* changes nothing, in either half of its handler.
C17_EditOfUnknownChangesNothing ==
    [][ LET s == last_step'
        IN  (s.op \in { "handle_edit_message:start", "handle_edit_message:finish" }
               /\ Row(messages, StepKey(s)) = None)
            => /\ messages' = messages
               /\ Row(messages', StepKey(s)) = None ]_vars

\* An edit handler has finished, its write made, for a key that has no record
\* while another key has one.
C17_Witness ==
    /\ last_step.op = "handle_edit_message:finish"
    /\ ~last_step.write_failed
    /\ Row(messages, StepKey(last_step)) = None
    /\ messages # {}

\* C18: with anti_delete off, a NewMessage or MessagesDeleted leaves the store
\* as it is; with save_edited off, a MessageEdited leaves the store as it is
\* and its handler ends without calling getMessage.
C18_FlagsGateWrites ==
    [][ LET s == last_step'
        IN  /\ (s.op \in { "handle_new_message", "handle_delete_message" }
                  /\ ~config.anti_delete)
               => messages' = messages
            /\ (s.op = "handle_edit_message:start" /\ ~config.save_edited)
               => messages' = messages /\ tasks' = tasks /\ ~s.awaits ]_vars

\* With anti_delete off, a MessagesDeleted named a stored record and left it
\* unmarked; with save_edited off an edit of a stored record started nothing.
C18_Witness ==
    \/ /\ last_step.op = "handle_delete_message" /\ ~config.anti_delete
       /\ \E i \in 1..Len(last_step.update.message_ids) :
            LET k == << last_step.update.chat_id, last_step.update.message_ids[i] >>
            IN  Row(messages, k) # None /\ Row(messages, k).is_deleted = 0
    \/ /\ last_step.op = "handle_edit_message:start" /\ ~config.save_edited
       /\ Row(messages, StepKey(last_step)) # None /\ tasks = << >>

====
